---- MODULE Spec2Model ----
(***************************************************************************)
(* The configuration-save pipeline of ddns-go: web.Save / checkAndSave     *)
(* (src/web/save.go).  Strings are sequences of one-character strings so   *)
(* that trimming, masking and line splitting are computed, not assumed.    *)
(***************************************************************************)
EXTENDS Integers, Sequences, FiniteSets, TLC

VARIABLES
    cfg,                \* the shared configuration held by the config cache
    confErr,            \* TRUE while loading the configuration returns an error
    startTime,          \* web.startTime, Unix seconds at process start
    now,                \* time.Now().Unix()
    ForceCompareGlobal, \* util.ForceCompareGlobal
    passes,             \* dns.RunOnce goroutines started and not yet finished
    resp,               \* the response Save has marshalled and not yet written: a
                        \* sequence of at most one response
    call,               \* what the request of that response did (the request, the
                        \* configuration it loaded, its collaborator calls)
    page,               \* the form the page holds after an ok response: a sequence
                        \* of at most one request body, secrets hidden
    truth,              \* for each entry the page's user keeps, by its IPv4 domain
                        \* text, the real ID and Secret the user last typed for it
    disk,               \* the configuration file: a sequence of at most one
                        \* configuration, the one of the last write that succeeded
    expired,            \* TRUE once a request of this process run has been evaluated
                        \* at line 57 with the window expired
    workers,            \* the goroutines serving Save, each with its position in
                        \* Save and checkAndSave and its locals
    runs                \* the dns.RunOnce goroutine each of them started

vars == <<cfg, confErr, startTime, now, ForceCompareGlobal, passes, resp, call,
          page, truth, disk, expired, workers, runs>>

None == "none"

-----------------------------------------------------------------------------
(* Strings                                                                 *)

Str0 == <<>>

IsSpace(c) == c \in {" ", "\n"}

RECURSIVE TrimLeft(_)
TrimLeft(s) ==
    IF s # <<>> /\ IsSpace(Head(s)) THEN TrimLeft(Tail(s)) ELSE s

RECURSIVE TrimRight(_)
TrimRight(s) ==
    IF s # <<>> /\ IsSpace(s[Len(s)]) THEN TrimRight(SubSeq(s, 1, Len(s) - 1)) ELSE s

\* strings.TrimSpace
TrimSpace(s) == TrimRight(TrimLeft(s))

\* util.SplitLines: the text cut at every newline, blank lines dropped
RECURSIVE SplitFrom(_, _)
SplitFrom(s, cur) ==
    IF s = <<>> THEN (IF cur = <<>> THEN <<>> ELSE <<cur>>)
    ELSE IF Head(s) = "\n"
         THEN (IF cur = <<>> THEN <<>> ELSE <<cur>>) \o SplitFrom(Tail(s), <<>>)
         ELSE SplitFrom(Tail(s), Append(cur, Head(s)))

SplitLines(s) == SplitFrom(s, <<>>)

\* strings.Join(lines, "\n"), used when the domain list is sent back to the page
RECURSIVE JoinLines(_)
JoinLines(lines) ==
    IF lines = <<>> THEN <<>>
    ELSE IF Len(lines) = 1 THEN lines[1]
    ELSE lines[1] \o <<"\n">> \o JoinLines(Tail(lines))

\* the placeholder shown for an ID or a Secret: its first two characters, the rest
\* replaced by "*" ("ABCDEF" is shown as "AB****")
RECURSIVE Stars(_)
Stars(n) == IF n <= 0 THEN <<>> ELSE <<"*">> \o Stars(n - 1)

HideString(s) ==
    IF Len(s) > 2 THEN SubSeq(s, 1, 2) \o Stars(Len(s) - 2) ELSE s

-----------------------------------------------------------------------------
(* Data                                                                    *)

\* dnsConf4JS{}: the DTO whose every field is its zero value
empty ==
    [DnsName |-> Str0, DnsID |-> Str0, DnsSecret |-> Str0, TTL |-> Str0,
     Ipv4Enable |-> FALSE, Ipv4GetType |-> Str0, Ipv4Url |-> Str0,
     Ipv4NetInterface |-> Str0, Ipv4Cmd |-> Str0, Ipv4Domains |-> Str0,
     Ipv6Enable |-> FALSE, Ipv6GetType |-> Str0, Ipv6Url |-> Str0,
     Ipv6NetInterface |-> Str0, Ipv6Cmd |-> Str0, Ipv6Reg |-> Str0,
     Ipv6Domains |-> Str0]

\* config.Config{}: what loading returns next to an error
ZeroConfig ==
    [Username |-> Str0, Password |-> Str0, NotAllowWanAccess |-> FALSE,
     WebhookURL |-> Str0, WebhookRequestBody |-> Str0, WebhookHeaders |-> Str0,
     Lang |-> "", DnsConf |-> <<>>]

\* the result strings of checkAndSave
MsgOk == "ok"
MsgParse == "parse-error"
MsgWindowFirst == "bootstrap-window: no configuration yet"
MsgWindowCreds == "bootstrap-window: credentials never set"
MsgWeakPassword == "weak-password"
MsgMissingCreds == "missing-credentials"
MsgWriteError == "write-error"

\* the bootstrap window, 5*60 seconds
WindowSecs == 300

-----------------------------------------------------------------------------
(* Collaborators of checkAndSave                                           *)

\* util.InitLogLang: the Accept-Language header mapped to a message catalog
InitLogLang(accept) == IF accept = "zh-CN" THEN "zh" ELSE "en"

\* the hash kept in place of a password
HashPassword(password) == <<"$">> \o password

\* the strength of a password: the number of distinct characters in it
PasswordStrength(password) == Cardinality({password[i] : i \in 1..Len(password)})

\* conf.CheckPassword: the hash, or an error when the password is too weak for
\* the exposure (a stronger minimum when WAN access is not blocked)
CheckPassword(conf, password) ==
    LET need == IF conf.NotAllowWanAccess THEN 2 ELSE 3
    IN  IF PasswordStrength(password) >= need
        THEN [err |-> FALSE, hashedPwd |-> HashPassword(password)]
        ELSE [err |-> TRUE, hashedPwd |-> Str0]

\* getHideIDSecret: the placeholders shown for an entry's ID and Secret
getHideIDSecret(c) ==
    [idHide |-> HideString(c.DNS.ID), secretHide |-> HideString(c.DNS.Secret)]

\* getDnsConfStr: the domain list as the page receives it, ID and Secret hidden
DnsConfToJS(c) ==
    [DnsName |-> c.DNS.Name,
     DnsID |-> getHideIDSecret(c).idHide,
     DnsSecret |-> getHideIDSecret(c).secretHide,
     TTL |-> c.TTL,
     Ipv4Enable |-> c.Ipv4.Enable, Ipv4GetType |-> c.Ipv4.GetType,
     Ipv4Url |-> c.Ipv4.URL, Ipv4NetInterface |-> c.Ipv4.NetInterface,
     Ipv4Cmd |-> c.Ipv4.Cmd, Ipv4Domains |-> JoinLines(c.Ipv4.Domains),
     Ipv6Enable |-> c.Ipv6.Enable, Ipv6GetType |-> c.Ipv6.GetType,
     Ipv6Url |-> c.Ipv6.URL, Ipv6NetInterface |-> c.Ipv6.NetInterface,
     Ipv6Cmd |-> c.Ipv6.Cmd, Ipv6Reg |-> c.Ipv6.Ipv6Reg,
     Ipv6Domains |-> JoinLines(c.Ipv6.Domains)]

RECURSIVE getDnsConfStr(_)
getDnsConfStr(dnsConf) ==
    IF dnsConf = <<>> THEN <<>>
    ELSE <<DnsConfToJS(Head(dnsConf))>> \o getDnsConfStr(Tail(dnsConf))

\* config.GetConfigCached: the process-wide configuration and the load error.
\* The configuration is the singleton itself: checkAndSave's assignments to conf
\* are assignments to it
GetConfigCached == [conf |-> cfg, err |-> confErr]

\* conf.SaveConfig: the load error after the durable write; loading stops failing
\* once a write has succeeded
SaveConfig(err, writeErr) == err /\ writeErr

-----------------------------------------------------------------------------
(* checkAndSave                                                            *)

\* lines 95-118: the entry built from one submitted DTO
NewDnsConf(v) ==
    [TTL |-> v.TTL,
     DNS |-> [Name |-> v.DnsName, ID |-> TrimSpace(v.DnsID),
              Secret |-> TrimSpace(v.DnsSecret)],
     Ipv4 |-> [Enable |-> v.Ipv4Enable, GetType |-> v.Ipv4GetType,
               URL |-> TrimSpace(v.Ipv4Url), NetInterface |-> v.Ipv4NetInterface,
               Cmd |-> TrimSpace(v.Ipv4Cmd), Domains |-> SplitLines(v.Ipv4Domains)],
     Ipv6 |-> [Enable |-> v.Ipv6Enable, GetType |-> v.Ipv6GetType,
               URL |-> TrimSpace(v.Ipv6Url), NetInterface |-> v.Ipv6NetInterface,
               Cmd |-> TrimSpace(v.Ipv6Cmd), Ipv6Reg |-> TrimSpace(v.Ipv6Reg),
               Domains |-> SplitLines(v.Ipv6Domains)]]

\* lines 120-129: a submitted placeholder is replaced by the value persisted at
\* the same index (k counts from 1 here, from 0 in the source)
RestoreSecrets_Together(dnsConf, k, confDnsConf) ==
    IF k <= Len(confDnsConf)
    THEN LET c == confDnsConf[k]
             hide == getHideIDSecret(c)
         IN  IF dnsConf.DNS.ID = hide.idHide
             THEN [dnsConf EXCEPT !.DNS.ID = c.DNS.ID, !.DNS.Secret = c.DNS.Secret]
             ELSE dnsConf
    ELSE dnsConf

RestoreSecrets(dnsConf, k, confDnsConf) ==
    IF k <= Len(confDnsConf)
    THEN LET c == confDnsConf[k]
             hide == getHideIDSecret(c)
         IN  [dnsConf EXCEPT
                !.DNS.ID = IF @ = hide.idHide THEN c.DNS.ID ELSE @,
                !.DNS.Secret = IF @ = hide.secretHide THEN c.DNS.Secret ELSE @]
    ELSE dnsConf

\* lines 88-133: the loop over the submitted list
RECURSIVE MergeFrom_KeepsRest(_, _, _)
MergeFrom_KeepsRest(dnsConfFromJS, k, confDnsConf) ==
    IF k > Len(dnsConfFromJS)
    THEN (IF k <= Len(confDnsConf) THEN SubSeq(confDnsConf, k, Len(confDnsConf))
          ELSE <<>>)
    ELSE LET v == dnsConfFromJS[k]
         IN  (IF v = empty THEN <<>>
              ELSE <<RestoreSecrets(NewDnsConf(v), k, confDnsConf)>>)
             \o MergeFrom_KeepsRest(dnsConfFromJS, k + 1, confDnsConf)

RECURSIVE MergeFrom(_, _, _)
MergeFrom(dnsConfFromJS, k, confDnsConf) ==
    IF k > Len(dnsConfFromJS) THEN <<>>
    ELSE LET v == dnsConfFromJS[k]
         IN  (IF v = empty THEN <<>>
              ELSE <<RestoreSecrets(NewDnsConf(v), k, confDnsConf)>>)
             \o MergeFrom(dnsConfFromJS, k + 1, confDnsConf)

MergeDnsConf(dnsConfFromJS, confDnsConf) == MergeFrom(dnsConfFromJS, 1, confDnsConf)

\* lines 101-103: the ordinals of the entries logged as having no domain
NoDomainLogs_AfterSplit(dnsConfFromJS) ==
    {k \in 1..Len(dnsConfFromJS) :
        /\ dnsConfFromJS[k] # empty
        /\ SplitLines(dnsConfFromJS[k].Ipv4Domains) = <<>>
        /\ SplitLines(dnsConfFromJS[k].Ipv6Domains) = <<>>}

NoDomainLogs(dnsConfFromJS) ==
    {k \in 1..Len(dnsConfFromJS) :
        /\ dnsConfFromJS[k] # empty
        /\ dnsConfFromJS[k].Ipv4Domains = Str0
        /\ dnsConfFromJS[k].Ipv6Domains = Str0}

\* line 57: the window has expired
WindowExpired_AtLimit(nowUnix, start) == nowUnix - start >= WindowSecs

WindowExpired(nowUnix, start) == nowUnix - start > WindowSecs

\* lines 57-66: the bootstrap window guard; the result string, or None to go on
WindowGuard_BothNew(conf, firstTime, usernameNew, passwordNew, nowUnix, start) ==
    IF WindowExpired(nowUnix, start)
    THEN IF firstTime THEN MsgWindowFirst
         ELSE IF (conf.Username = Str0 /\ conf.Password = Str0)
                 /\ (usernameNew # Str0 /\ passwordNew # Str0)
              THEN MsgWindowCreds
              ELSE None
    ELSE None

WindowGuard(conf, firstTime, usernameNew, passwordNew, nowUnix, start) ==
    IF WindowExpired(nowUnix, start)
    THEN IF firstTime THEN MsgWindowFirst
         ELSE IF (conf.Username = Str0 /\ conf.Password = Str0)
                 /\ (usernameNew # Str0 \/ passwordNew # Str0)
              THEN MsgWindowCreds
              ELSE None
    ELSE None

\* a return of checkAndSave before conf.SaveConfig is reached
Rejected_Triggers(msg, conf) ==
    [result |-> msg, conf |-> conf, saveCalls |-> 0, setForce |-> TRUE,
     runOnce |-> 1, logs |-> {}]

Rejected(msg, conf) ==
    [result |-> msg, conf |-> conf, saveCalls |-> 0, setForce |-> FALSE,
     runOnce |-> 0, logs |-> {}]

\* lines 135-146: SaveConfig, the flag, the goroutine and the result
SaveAndRun_ReturnOnError(conf, logs, writeErr) ==
    [result |-> IF writeErr THEN MsgWriteError ELSE MsgOk, conf |-> conf,
     saveCalls |-> 1, setForce |-> ~writeErr, runOnce |-> IF writeErr THEN 0 ELSE 1,
     logs |-> logs]

SaveAndRun(conf, logs, writeErr) ==
    [result |-> IF writeErr THEN MsgWriteError ELSE MsgOk, conf |-> conf,
     saveCalls |-> 1, setForce |-> TRUE, runOnce |-> 1, logs |-> logs]

\* lines 68-86: the settings and the credentials, then the merge
ApplyAndSave_NoCredsCheck(conf0, data, usernameNew, passwordNew, writeErr) ==
    LET conf1 == [conf0 EXCEPT
                    !.NotAllowWanAccess = data.NotAllowWanAccess,
                    !.WebhookURL = TrimSpace(data.WebhookURL),
                    !.WebhookRequestBody = TrimSpace(data.WebhookRequestBody),
                    !.WebhookHeaders = TrimSpace(data.WebhookHeaders),
                    !.Username = usernameNew]
        chk == CheckPassword(conf1, passwordNew)
        conf2 == IF passwordNew # Str0
                 THEN [conf1 EXCEPT !.Password = chk.hashedPwd]
                 ELSE conf1
    IN  IF passwordNew # Str0 /\ chk.err THEN Rejected(MsgWeakPassword, conf1)
        ELSE SaveAndRun(
               [conf2 EXCEPT !.DnsConf = MergeDnsConf(data.DnsConf, conf2.DnsConf)],
               NoDomainLogs(data.DnsConf), writeErr)

ApplyAndSave_RawPassword(conf0, data, usernameNew, passwordNew, writeErr) ==
    LET conf1 == [conf0 EXCEPT
                    !.NotAllowWanAccess = data.NotAllowWanAccess,
                    !.WebhookURL = TrimSpace(data.WebhookURL),
                    !.WebhookRequestBody = TrimSpace(data.WebhookRequestBody),
                    !.WebhookHeaders = TrimSpace(data.WebhookHeaders),
                    !.Username = usernameNew]
        chk == CheckPassword(conf1, passwordNew)
        conf2 == IF passwordNew # Str0
                 THEN [conf1 EXCEPT !.Password = passwordNew]
                 ELSE conf1
    IN  IF passwordNew # Str0 /\ chk.err THEN Rejected(MsgWeakPassword, conf1)
        ELSE IF conf2.Username = Str0 \/ conf2.Password = Str0
             THEN Rejected(MsgMissingCreds, conf2)
             ELSE SaveAndRun(
                    [conf2 EXCEPT !.DnsConf = MergeDnsConf(data.DnsConf, conf2.DnsConf)],
                    NoDomainLogs(data.DnsConf), writeErr)

ApplyAndSave(conf0, data, usernameNew, passwordNew, writeErr) ==
    LET conf1 == [conf0 EXCEPT
                    !.NotAllowWanAccess = data.NotAllowWanAccess,
                    !.WebhookURL = TrimSpace(data.WebhookURL),
                    !.WebhookRequestBody = TrimSpace(data.WebhookRequestBody),
                    !.WebhookHeaders = TrimSpace(data.WebhookHeaders),
                    !.Username = usernameNew]
        chk == CheckPassword(conf1, passwordNew)
        conf2 == IF passwordNew # Str0
                 THEN [conf1 EXCEPT !.Password = chk.hashedPwd]
                 ELSE conf1
    IN  IF passwordNew # Str0 /\ chk.err THEN Rejected(MsgWeakPassword, conf1)
        ELSE IF conf2.Username = Str0 \/ conf2.Password = Str0
             THEN Rejected(MsgMissingCreds, conf2)
             ELSE SaveAndRun(
                    [conf2 EXCEPT !.DnsConf = MergeDnsConf(data.DnsConf, conf2.DnsConf)],
                    NoDomainLogs(data.DnsConf), writeErr)

\* lines 29-147: checkAndSave on the loaded configuration; request.decodes is
\* whether the body decodes, writeErr whether conf.SaveConfig fails
checkAndSave(loaded, request, nowUnix, start, writeErr) ==
    LET conf == loaded.conf
        firstTime == loaded.err
    IN  IF ~request.decodes THEN Rejected(MsgParse, conf)
        ELSE LET data == request.data
                 usernameNew == TrimSpace(data.Username)
                 passwordNew == data.Password
                 confL == [conf EXCEPT !.Lang = InitLogLang(request.accept)]
                 guard == WindowGuard(confL, firstTime, usernameNew, passwordNew,
                                      nowUnix, start)
             IN  IF guard # None THEN Rejected(guard, confL)
                 ELSE ApplyAndSave(confL, data, usernameNew, passwordNew, writeErr)

-----------------------------------------------------------------------------
(* Requests                                                                *)

MaxPasses == 1

Usernames == {Str0, <<" ">>, <<" ", "u">>}
Passwords == {Str0, <<"a">>, <<"a", "1">>, <<"a", "1", "!">>}

DtoA ==
    [empty EXCEPT !.DnsName = <<"d">>, !.DnsID = <<"i", "d", "1">>,
                  !.DnsSecret = <<"k", "e", "y">>, !.Ipv4Enable = TRUE,
                  !.Ipv4Domains = <<"x", "\n", "y">>]

ZeroData ==
    [Username |-> Str0, Password |-> Str0, NotAllowWanAccess |-> FALSE,
     WebhookURL |-> Str0, WebhookRequestBody |-> Str0, WebhookHeaders |-> Str0,
     DnsConf |-> <<>>]

\* a body that does not decode
Malformed == [decodes |-> FALSE, accept |-> "en-US", data |-> ZeroData]

Decoded(accept, data) == [decodes |-> TRUE, accept |-> accept, data |-> data]

\* the fields a request carries besides the credentials and the WAN flag
Others ==
    {[accept |-> "zh-CN", hook |-> Str0, dns |-> <<>>],
     [accept |-> "en-US", hook |-> <<"h", " ">>, dns |-> <<DtoA>>]}

Body(u, p, w, o) ==
    Decoded(o.accept,
            [Username |-> u, Password |-> p, NotAllowWanAccess |-> w,
             WebhookURL |-> o.hook, WebhookRequestBody |-> Str0,
             WebhookHeaders |-> o.hook, DnsConf |-> o.dns])

Requests ==
    {Malformed} \cup
    {Body(u, p, w, o) : u \in Usernames, p \in Passwords, w \in BOOLEAN, o \in Others}

-----------------------------------------------------------------------------
(* The process                                                             *)

\* a configuration file written without credentials
NoCredsConfig == [ZeroConfig EXCEPT !.Lang = "zh"]

\* a configuration file with credentials
CredsConfig ==
    [ZeroConfig EXCEPT !.Lang = "zh", !.Username = <<"u">>,
                       !.Password = HashPassword(<<"a", "1", "!">>)]

\* config.GetConfigCached at process start: the file's configuration, or the zero
\* configuration and an error when there is no file
Loaded(file) ==
    IF file = <<>> THEN [conf |-> ZeroConfig, err |-> TRUE]
    ELSE [conf |-> file[1], err |-> FALSE]

Init ==
    /\ disk \in {<<>>, <<NoCredsConfig>>, <<CredsConfig>>}
    /\ cfg = Loaded(disk).conf /\ confErr = Loaded(disk).err
    /\ startTime = 0
    /\ now = startTime
    /\ ForceCompareGlobal = FALSE
    /\ passes = 0
    /\ resp = <<>>
    /\ call = <<>>
    /\ page = <<>>
    /\ truth = <<>>
    /\ expired = FALSE
    /\ workers = <<>>
    /\ runs = <<>>

\* web.Save on one request: checkAndSave, then the response; from says whether
\* the body is a new one or the form the page holds, sent back unchanged
SaveOn(request, writeErr, from) ==
    /\ resp = <<>>
    /\ \E loaded \in {GetConfigCached} :
       \E out \in {checkAndSave(loaded, request, now, startTime, writeErr)} :
        /\ passes + out.runOnce <= MaxPasses
        /\ cfg' = out.conf
        /\ confErr' = IF out.saveCalls > 0 THEN SaveConfig(loaded.err, writeErr)
                      ELSE loaded.err
        /\ disk' = IF out.saveCalls > 0 /\ ~writeErr THEN <<out.conf>> ELSE disk
        /\ ForceCompareGlobal' = (ForceCompareGlobal \/ out.setForce)
        /\ passes' = passes + out.runOnce
        /\ expired' = (expired \/ (request.decodes /\ WindowExpired(now, startTime)))
        /\ resp' = <<[result |-> out.result,
                      dnsConf |-> IF out.result = MsgOk
                                  THEN getDnsConfStr(out.conf.DnsConf) ELSE <<>>]>>
        /\ call' = <<[request |-> request, from |-> from, conf |-> loaded.conf,
                      firstTime |-> loaded.err, elapsed |-> now - startTime,
                      file |-> disk, expired |-> expired,
                      force |-> ForceCompareGlobal, passes |-> passes,
                      writeErr |-> writeErr /\ out.saveCalls > 0,
                      saveCalls |-> out.saveCalls, setForce |-> out.setForce,
                      runOnce |-> out.runOnce, logs |-> out.logs]>>
        /\ UNCHANGED <<startTime, now, workers, runs>>

Save ==
    /\ resp = <<>>
    /\ \E request \in Requests, writeErr \in BOOLEAN : SaveOn(request, writeErr, "new")
    /\ UNCHANGED <<page, truth>>

\* writer.Write: the response leaves the handler.  The clock and the passes
\* are not read between checkAndSave's return and the write, so their steps are
\* taken with no response pending
Respond ==
    /\ resp # <<>>
    /\ resp' = <<>>
    /\ call' = <<>>
    /\ UNCHANGED <<cfg, confErr, startTime, now, ForceCompareGlobal, passes,
                   page, truth, disk, expired, workers, runs>>

\* a started dns.RunOnce pass ends
RunOnce ==
    /\ resp = <<>>
    /\ passes > 0
    /\ passes' = passes - 1
    /\ UNCHANGED <<cfg, confErr, startTime, now, ForceCompareGlobal, resp, call,
                   page, truth, disk, expired, workers, runs>>

\* the clock: the seconds since process start go from one of these to a later one
Elapsed == {240, 300, 360}

Tick ==
    /\ resp = <<>>
    /\ \E t \in Elapsed : t > now - startTime /\ now' = startTime + t
    /\ UNCHANGED <<cfg, confErr, startTime, ForceCompareGlobal, passes, resp, call,
                   page, truth, disk, expired, workers, runs>>

Next == Save \/ Respond \/ RunOnce \/ Tick

Spec == Init /\ [][Next]_vars

-----------------------------------------------------------------------------
(* The wall clock set back, and the process started again                  *)

MaxClock == 360

\* time.Now().Unix() is the wall clock: it is set back to an earlier reading
ClockSet ==
    /\ resp = <<>>
    /\ \E t \in Elapsed \cup {0} : t < now - startTime /\ now' = startTime + t
    /\ UNCHANGED <<cfg, confErr, startTime, ForceCompareGlobal, passes, resp, call,
                   page, truth, disk, expired, workers, runs>>

\* the process is started again: startTime is the clock's reading, and the
\* configuration is loaded from the file
Restart ==
    /\ resp = <<>>
    /\ now <= MaxClock
    /\ startTime' = now
    /\ cfg' = Loaded(disk).conf
    /\ confErr' = Loaded(disk).err
    /\ ForceCompareGlobal' = FALSE
    /\ passes' = 0
    /\ expired' = FALSE
    /\ UNCHANGED <<now, resp, call, page, truth, disk, workers, runs>>

\* the requests sent while the clock is set and the process restarted: with and
\* without a username, with and without a password
WindowRequests ==
    {Malformed} \cup
    {Body(u, p, FALSE, [accept |-> "zh-CN", hook |-> Str0, dns |-> <<>>]) :
        u \in {Str0, <<" ", "u">>}, p \in {Str0, <<"a", "1", "!">>}}

SaveWindow ==
    /\ resp = <<>>
    /\ \E request \in WindowRequests, writeErr \in BOOLEAN :
          SaveOn(request, writeErr, "new")
    /\ UNCHANGED <<page, truth>>

NextWindow == SaveWindow \/ Respond \/ RunOnce \/ Tick \/ ClockSet \/ Restart

SpecWindow == Init /\ [][NextWindow]_vars

-----------------------------------------------------------------------------
(* Saves of domain lists, and the page sending its form back               *)

MaxDns == 2

\* a DTO by its ID, Secret and IPv4 domain text
Dto(id, secret, domains) ==
    [empty EXCEPT !.DnsID = id, !.DnsSecret = secret, !.Ipv4Domains = domains]

DtoX == Dto(<<"a", "b", "c">>, <<"k", "e", "y">>, <<"x">>)
DtoY == Dto(<<" ", "a", "b", "d">>, <<"k", "e", "*">>, <<"\n", "y", "\n">>)
DtoHidden == Dto(<<"a", "b", "*", " ">>, <<"n", "e", "w">>, <<"\n">>)
DtoBlank == Dto(<<" ">>, Str0, Str0)

Dtos == {empty, DtoX, DtoY, DtoHidden, DtoBlank}

\* the sequence f[1], ..., f[n]
RECURSIVE SeqOf(_, _, _)
SeqOf(f, i, n) == IF i > n THEN <<>> ELSE <<f[i]>> \o SeqOf(f, i + 1, n)

\* a body with valid credentials: the username kept, no new password
DnsBody(dnsConf) ==
    Decoded("zh-CN",
            [ZeroData EXCEPT !.Username = <<"u">>, !.DnsConf = dnsConf])

InitMerge ==
    /\ disk = <<CredsConfig>>
    /\ cfg = Loaded(disk).conf /\ confErr = Loaded(disk).err
    /\ startTime = 0
    /\ now = startTime
    /\ ForceCompareGlobal = FALSE
    /\ passes = 0
    /\ resp = <<>>
    /\ call = <<>>
    /\ page = <<>>
    /\ truth = <<>>
    /\ expired = FALSE
    /\ workers = <<>>
    /\ runs = <<>>

\* a save of up to MaxDns entries whose write succeeds
SaveDns ==
    /\ resp = <<>>
    /\ \E n \in 0..MaxDns : \E f \in [1..n -> Dtos] :
          SaveOn(DnsBody(SeqOf(f, 1, n)), FALSE, "new")
    /\ page' = <<>>
    /\ UNCHANGED truth

\* the form after an ok response: the submitted settings, the password field
\* cleared, the domain list as the response carries it
FormAfter(request, response) ==
    [request EXCEPT !.data.Password = Str0, !.data.DnsConf = response.dnsConf]

\* writer.Write, and the page taking the response
Deliver ==
    /\ resp # <<>>
    /\ page' = IF resp[1].result = MsgOk
               THEN <<FormAfter(call[1].request, resp[1])>> ELSE <<>>
    /\ resp' = <<>>
    /\ call' = <<>>
    /\ UNCHANGED <<cfg, confErr, startTime, now, ForceCompareGlobal, passes, truth,
                   disk, expired, workers, runs>>

\* the page sends its form back as it is
SaveAgain ==
    /\ page # <<>>
    /\ \E writeErr \in BOOLEAN : SaveOn(page[1], writeErr, "again")
    /\ page' = <<>>
    /\ UNCHANGED truth

NextMerge == SaveDns \/ Deliver \/ SaveAgain \/ RunOnce

SpecMerge == InitMerge /\ [][NextMerge]_vars

-----------------------------------------------------------------------------
(* Saves whose write fails, and the client sending the same body again     *)

\* a save of up to MaxDns entries whose write fails
SaveFails ==
    /\ resp = <<>>
    /\ \E n \in 0..MaxDns : \E f \in [1..n -> Dtos] :
          SaveOn(DnsBody(SeqOf(f, 1, n)), TRUE, "new")
    /\ page' = <<>>
    /\ UNCHANGED truth

\* writer.Write, and the client of a write error keeping the body it sent
DeliverError ==
    /\ resp # <<>>
    /\ page' = IF resp[1].result = MsgWriteError THEN <<call[1].request>> ELSE <<>>
    /\ resp' = <<>>
    /\ call' = <<>>
    /\ UNCHANGED <<cfg, confErr, startTime, now, ForceCompareGlobal, passes, truth,
                   disk, expired, workers, runs>>

\* the client sends the same body again
Resubmit ==
    /\ page # <<>>
    /\ \E writeErr \in BOOLEAN : SaveOn(page[1], writeErr, "retry")
    /\ page' = <<>>
    /\ UNCHANGED truth

NextRetry == SaveFails \/ DeliverError \/ Resubmit \/ RunOnce

SpecRetry == InitMerge /\ [][NextRetry]_vars

-----------------------------------------------------------------------------
(* A user editing the page's form                                          *)

\* the entries the user keeps, told apart by their IPv4 domain text
Tags == {<<"x">>, <<"y">>}

RealIDs == {<<"a", "b", "c">>, <<"a", "b", "d">>}
RealSecrets == {<<"k", "e", "y">>}

Keep == <<"keep">>
NoReal == [id |-> Str0, secret |-> Str0]

\* the entry of the form with tag t, if the form shows one
Shown(t) == {k \in 1..Len(page[1].data.DnsConf) : page[1].data.DnsConf[k].Ipv4Domains = t}
ShownDto(t) == page[1].data.DnsConf[CHOOSE k \in Shown(t) : TRUE]

\* what the user submits for tag t: for the ID and for the Secret, either the
\* placeholder the form shows or a real value typed anew
Edited(t, id, secret) ==
    Dto(IF id = Keep THEN ShownDto(t).DnsID ELSE id,
        IF secret = Keep THEN ShownDto(t).DnsSecret ELSE secret,
        t)

\* the orders in which the user can list some of the entries
TagLists ==
    {q \in UNION {[1..n -> Tags] : n \in 0..Cardinality(Tags)} :
        \A i, j \in DOMAIN q : i # j => q[i] # q[j]}

InitClient ==
    /\ disk = <<CredsConfig>>
    /\ cfg = Loaded(disk).conf /\ confErr = Loaded(disk).err
    /\ startTime = 0
    /\ now = startTime
    /\ ForceCompareGlobal = FALSE
    /\ passes = 0
    /\ resp = <<>>
    /\ call = <<>>
    /\ page = <<DnsBody(getDnsConfStr(cfg.DnsConf))>>
    /\ truth = [t \in Tags |-> NoReal]
    /\ expired = FALSE
    /\ workers = <<>>
    /\ runs = <<>>

\* the user deletes, reorders, keeps or retypes entries and saves; the write
\* succeeds
SaveEdited ==
    /\ resp = <<>>
    /\ page # <<>>
    /\ \E q \in TagLists :
       \E ids \in [DOMAIN q -> RealIDs \cup {Keep}] :
       \E secrets \in [DOMAIN q -> RealSecrets \cup {Keep}] :
          /\ Len(q) <= MaxDns
          /\ \A i \in DOMAIN q :
                (ids[i] = Keep \/ secrets[i] = Keep) => Shown(q[i]) # {}
          /\ SaveOn(DnsBody(SeqOf([i \in DOMAIN q |-> Edited(q[i], ids[i], secrets[i])],
                                  1, Len(q))),
                    FALSE, "new")
          /\ truth' = [t \in Tags |->
                         IF \E i \in DOMAIN q : q[i] = t
                         THEN LET i == CHOOSE i \in DOMAIN q : q[i] = t
                              IN  [id |-> IF ids[i] = Keep THEN truth[t].id ELSE ids[i],
                                   secret |-> IF secrets[i] = Keep THEN truth[t].secret
                                              ELSE secrets[i]]
                         ELSE NoReal]
    /\ page' = <<>>

NextClient == SaveEdited \/ Deliver \/ RunOnce

SpecClient == InitClient /\ [][NextClient]_vars

-----------------------------------------------------------------------------
(* Save served by goroutines that run side by side, statement by statement *)

\* the goroutines net/http serves requests on
Handlers == {1, 2}

\* an entry persisted before the requests arrive
EntryX == NewDnsConf(DtoX)

StepsConfig == [CredsConfig EXCEPT !.DnsConf = <<EntryX>>]

\* the bodies the two goroutines are sent: one keeps the entry's ID and Secret
\* behind their placeholders, the other replaces the list
BodyOne ==
    Decoded("zh-CN",
            [ZeroData EXCEPT !.Username = <<"u">>, !.WebhookURL = <<"h">>,
                             !.DnsConf = <<Dto(<<"a", "b", "*">>, <<"k", "e", "*">>,
                                               <<"x">>)>>])

BodyTwo ==
    Decoded("en-US",
            [ZeroData EXCEPT !.Username = <<"v">>, !.Password = <<"a", "1", "!">>,
                             !.NotAllowWanAccess = TRUE,
                             !.DnsConf = <<Dto(<<"i", "d">>, <<"s">>, <<"y">>),
                                           Dto(<<"i", "d">>, <<"s">>, <<"z">>)>>])

\* what goroutine h is sent: a body, and whether its conf.SaveConfig fails
StepInputs(h) ==
    IF h = 1
    THEN {[request |-> BodyOne, writeErr |-> FALSE],
          [request |-> BodyOne, writeErr |-> TRUE],
          [request |-> Malformed, writeErr |-> FALSE]}
    ELSE {[request |-> BodyTwo, writeErr |-> FALSE],
          [request |-> BodyTwo, writeErr |-> TRUE]}

\* a goroutine that serves no request yet
IdleWorker ==
    [pc |-> "idle", request |-> Malformed, writeErr |-> FALSE, firstTime |-> FALSE,
     result |-> None, saved |-> <<>>, touched |-> FALSE, dnsConfJsonStr |-> <<>>,
     response |-> <<>>]

\* no dns.RunOnce goroutine
NoRun ==
    [stage |-> "none", force |-> FALSE, sawForce |-> FALSE, sawCfg |-> <<>>,
     touched |-> FALSE]

InitSteps ==
    /\ disk = <<StepsConfig>>
    /\ cfg = Loaded(disk).conf /\ confErr = Loaded(disk).err
    /\ startTime = 0
    /\ now = startTime
    /\ ForceCompareGlobal = FALSE
    /\ passes = 0
    /\ resp = <<>>
    /\ call = <<>>
    /\ page = <<>>
    /\ truth = <<>>
    /\ expired = FALSE
    /\ workers = [h \in Handlers |-> IdleWorker]
    /\ runs = [h \in Handlers |-> NoRun]

\* goroutine h goes on as w; touches says whether its statement changed the
\* shared configuration or the flag under the other goroutines
Goes(h, w, touches) ==
    [g \in Handlers |->
        IF g = h THEN w
        ELSE IF touches THEN [workers[g] EXCEPT !.touched = TRUE]
        ELSE workers[g]]

\* the statement after lines 136, 139 and 140
StepAfter_GoFirst(pc) ==
    CASE pc = "write" -> "go"
      [] pc = "go" -> "flag"
      [] pc = "flag" -> "return"

StepAfter(pc) ==
    CASE pc = "write" -> "flag"
      [] pc = "flag" -> "go"
      [] pc = "go" -> "return"

\* line 18: Save calls checkAndSave on a request
Begin(h) ==
    /\ workers[h].pc = "idle"
    /\ \E input \in StepInputs(h) :
          workers' = Goes(h, [workers[h] EXCEPT !.pc = "load",
                                                !.request = input.request,
                                                !.writeErr = input.writeErr], FALSE)
    /\ UNCHANGED <<cfg, confErr, startTime, now, ForceCompareGlobal, passes, resp,
                   call, page, truth, disk, expired, runs>>

\* lines 30-31
LoadConfig(h) ==
    /\ workers[h].pc = "load"
    /\ workers' = Goes(h, [workers[h] EXCEPT !.pc = "decode",
                                             !.firstTime = GetConfigCached.err], FALSE)
    /\ UNCHANGED <<cfg, confErr, startTime, now, ForceCompareGlobal, passes, resp,
                   call, page, truth, disk, expired, runs>>

\* lines 45-54
DecodeBody(h) ==
    /\ workers[h].pc = "decode"
    /\ IF ~workers[h].request.decodes
       THEN /\ workers' = Goes(h, [workers[h] EXCEPT !.pc = "reload",
                                                     !.result = MsgParse], FALSE)
            /\ cfg' = cfg
       ELSE /\ cfg' = [cfg EXCEPT !.Lang = InitLogLang(workers[h].request.accept)]
            /\ workers' = Goes(h, [workers[h] EXCEPT !.pc = "guard"], cfg' # cfg)
    /\ UNCHANGED <<confErr, startTime, now, ForceCompareGlobal, passes, resp,
                   call, page, truth, disk, expired, runs>>

\* lines 57-66
CheckWindow(h) ==
    /\ workers[h].pc = "guard"
    /\ LET data == workers[h].request.data
           guard == WindowGuard(cfg, workers[h].firstTime, TrimSpace(data.Username),
                                data.Password, now, startTime)
       IN  workers' = Goes(h, IF guard # None
                              THEN [workers[h] EXCEPT !.pc = "reload", !.result = guard]
                              ELSE [workers[h] EXCEPT !.pc = "settings"], FALSE)
    /\ expired' = (expired \/ WindowExpired(now, startTime))
    /\ UNCHANGED <<cfg, confErr, startTime, now, ForceCompareGlobal, passes, resp,
                   call, page, truth, disk, runs>>

\* lines 68-74
AssignSettings(h) ==
    /\ workers[h].pc = "settings"
    /\ LET data == workers[h].request.data
       IN  cfg' = [cfg EXCEPT
                     !.NotAllowWanAccess = data.NotAllowWanAccess,
                     !.WebhookURL = TrimSpace(data.WebhookURL),
                     !.WebhookRequestBody = TrimSpace(data.WebhookRequestBody),
                     !.WebhookHeaders = TrimSpace(data.WebhookHeaders),
                     !.Username = TrimSpace(data.Username)]
    /\ workers' = Goes(h, [workers[h] EXCEPT !.pc = "password"], cfg' # cfg)
    /\ UNCHANGED <<confErr, startTime, now, ForceCompareGlobal, passes, resp,
                   call, page, truth, disk, expired, runs>>

\* lines 75-86
AssignPassword(h) ==
    /\ workers[h].pc = "password"
    /\ LET passwordNew == workers[h].request.data.Password
           chk == CheckPassword(cfg, passwordNew)
           conf2 == IF passwordNew # Str0 THEN [cfg EXCEPT !.Password = chk.hashedPwd]
                    ELSE cfg
       IN  IF passwordNew # Str0 /\ chk.err
           THEN /\ cfg' = cfg
                /\ workers' = Goes(h, [workers[h] EXCEPT !.pc = "reload",
                                                         !.result = MsgWeakPassword],
                                   FALSE)
           ELSE /\ cfg' = conf2
                /\ workers' =
                      Goes(h, IF conf2.Username = Str0 \/ conf2.Password = Str0
                              THEN [workers[h] EXCEPT !.pc = "reload",
                                                      !.result = MsgMissingCreds]
                              ELSE [workers[h] EXCEPT !.pc = "merge"],
                           cfg' # cfg)
    /\ UNCHANGED <<confErr, startTime, now, ForceCompareGlobal, passes, resp,
                   call, page, truth, disk, expired, runs>>

\* lines 88-133
MergeList(h) ==
    /\ workers[h].pc = "merge"
    /\ cfg' = [cfg EXCEPT !.DnsConf = MergeDnsConf(workers[h].request.data.DnsConf,
                                                   cfg.DnsConf)]
    /\ workers' = Goes(h, [workers[h] EXCEPT !.pc = "write"], cfg' # cfg)
    /\ UNCHANGED <<confErr, startTime, now, ForceCompareGlobal, passes, resp,
                   call, page, truth, disk, expired, runs>>

\* line 136
WriteConfig(h) ==
    /\ workers[h].pc = "write"
    /\ disk' = IF workers[h].writeErr THEN disk ELSE <<cfg>>
    /\ confErr' = SaveConfig(confErr, workers[h].writeErr)
    /\ workers' = Goes(h, [workers[h] EXCEPT !.pc = StepAfter("write"),
                                             !.saved = <<cfg>>, !.touched = FALSE],
                       FALSE)
    /\ UNCHANGED <<cfg, startTime, now, ForceCompareGlobal, passes, resp,
                   call, page, truth, expired, runs>>

\* line 139
SetForce(h) ==
    /\ workers[h].pc = "flag"
    /\ ForceCompareGlobal' = TRUE
    /\ workers' = Goes(h, [workers[h] EXCEPT !.pc = StepAfter("flag")],
                       ForceCompareGlobal' # ForceCompareGlobal)
    /\ UNCHANGED <<cfg, confErr, startTime, now, passes, resp, call, page, truth,
                   disk, expired, runs>>

\* line 140
GoRunOnce(h) ==
    /\ workers[h].pc = "go"
    /\ runs' = [runs EXCEPT ![h] = [NoRun EXCEPT !.stage = "started",
                                                 !.force = ForceCompareGlobal]]
    /\ passes' = passes + 1
    /\ workers' = Goes(h, [workers[h] EXCEPT !.pc = StepAfter("go")], FALSE)
    /\ UNCHANGED <<cfg, confErr, startTime, now, ForceCompareGlobal, resp, call,
                   page, truth, disk, expired>>

\* lines 143-146
ReturnResult_AfterPass(h) ==
    /\ workers[h].pc = "return"
    /\ runs[h].stage = "done"
    /\ workers' = Goes(h, [workers[h] EXCEPT
                             !.pc = "reload",
                             !.result = IF workers[h].writeErr THEN MsgWriteError
                                        ELSE MsgOk], FALSE)
    /\ UNCHANGED <<cfg, confErr, startTime, now, ForceCompareGlobal, passes, resp,
                   call, page, truth, disk, expired, runs>>

ReturnResult(h) ==
    /\ workers[h].pc = "return"
    /\ workers' = Goes(h, [workers[h] EXCEPT
                             !.pc = "reload",
                             !.result = IF workers[h].writeErr THEN MsgWriteError
                                        ELSE MsgOk], FALSE)
    /\ UNCHANGED <<cfg, confErr, startTime, now, ForceCompareGlobal, passes, resp,
                   call, page, truth, disk, expired, runs>>

\* lines 19-23
ReloadList(h) ==
    /\ workers[h].pc = "reload"
    /\ workers' = Goes(h, [workers[h] EXCEPT
                             !.pc = "respond",
                             !.dnsConfJsonStr =
                                 IF workers[h].result = MsgOk
                                 THEN getDnsConfStr(GetConfigCached.conf.DnsConf)
                                 ELSE <<>>], FALSE)
    /\ UNCHANGED <<cfg, confErr, startTime, now, ForceCompareGlobal, passes, resp,
                   call, page, truth, disk, expired, runs>>

\* lines 24-26
WriteResponse(h) ==
    /\ workers[h].pc = "respond"
    /\ workers' = Goes(h, [workers[h] EXCEPT
                             !.pc = "done",
                             !.response = <<[result |-> workers[h].result,
                                             dnsConf |-> workers[h].dnsConfJsonStr]>>],
                       FALSE)
    /\ UNCHANGED <<cfg, confErr, startTime, now, ForceCompareGlobal, passes, resp,
                   call, page, truth, disk, expired, runs>>

\* the dns.RunOnce goroutine started by h reads the configuration and the flag
PassReads(h) ==
    /\ runs[h].stage = "started"
    /\ runs' = [runs EXCEPT ![h] = [@ EXCEPT !.stage = "read",
                                             !.sawForce = ForceCompareGlobal,
                                             !.sawCfg = <<cfg>>,
                                             !.touched = workers[h].touched]]
    /\ UNCHANGED <<cfg, confErr, startTime, now, ForceCompareGlobal, passes, resp,
                   call, page, truth, disk, expired, workers>>

\* and ends
PassEnds(h) ==
    /\ runs[h].stage = "read"
    /\ runs' = [runs EXCEPT ![h] = [@ EXCEPT !.stage = "done"]]
    /\ passes' = passes - 1
    /\ UNCHANGED <<cfg, confErr, startTime, now, ForceCompareGlobal, resp, call,
                   page, truth, disk, expired, workers>>

\* the statements of Save and checkAndSave after the request has arrived
Serve(h) ==
    \/ LoadConfig(h) \/ DecodeBody(h) \/ CheckWindow(h) \/ AssignSettings(h)
    \/ AssignPassword(h) \/ MergeList(h) \/ WriteConfig(h) \/ SetForce(h)
    \/ GoRunOnce(h) \/ ReturnResult(h) \/ ReloadList(h) \/ WriteResponse(h)

NextSteps == \E h \in Handlers : Begin(h) \/ Serve(h) \/ PassReads(h) \/ PassEnds(h)

SpecSteps == InitSteps /\ [][NextSteps]_vars

\* the Go scheduler runs every goroutine that can run; nothing makes a request
\* arrive, and nothing is assumed of how far a dns.RunOnce pass gets
SpecStepsFair == SpecSteps /\ \A h \in Handlers : WF_vars(Serve(h))

-----------------------------------------------------------------------------
(* The pending request, and what the source's conditions say of it         *)

Pending == call # <<>>
TheCall == call[1]
TheResp == resp[1]
TheData == TheCall.request.data

\* the request's new credentials as lines 49-50 read them
NewUsername == TrimSpace(TheData.Username)
NewPassword == TheData.Password

\* the password hash the request ends with when its password is accepted
FinalPassword ==
    IF NewPassword = Str0 THEN TheCall.conf.Password ELSE HashPassword(NewPassword)

\* the new password is accepted by the strength policy for the submitted exposure
PasswordAccepted ==
    PasswordStrength(NewPassword) >= (IF TheData.NotAllowWanAccess THEN 2 ELSE 3)

\* the request is one the bootstrap window guard lets through
GuardAllows ==
    /\ TheCall.request.decodes
    /\ ~(TheCall.elapsed > WindowSecs /\ TheCall.firstTime)
    /\ ~(/\ TheCall.elapsed > WindowSecs
         /\ TheCall.conf.Username = Str0 /\ TheCall.conf.Password = Str0
         /\ (NewUsername # Str0 \/ NewPassword # Str0))

\* the request passes the guard and the credential checks
PassesChecks ==
    /\ GuardAllows
    /\ NewPassword # Str0 => PasswordAccepted
    /\ NewUsername # Str0
    /\ FinalPassword # Str0

Rejections == {MsgParse, MsgWindowFirst, MsgWindowCreds, MsgWeakPassword, MsgMissingCreds}

-----------------------------------------------------------------------------
(* C1: bootstrap rule 1                                                    *)

\* C1 as stated: with no persisted configuration, a save evaluated more than
\* 300 s after process start is rejected with the bootstrap-window error whatever
\* its body, and a save with a non-empty (trimmed) username and a non-empty
\* accepted password whose write succeeds, evaluated at most 300 s after start,
\* returns ok.
C1_AsStated ==
    Pending /\ TheCall.firstTime =>
        /\ TheCall.elapsed > WindowSecs => TheResp.result = MsgWindowFirst
        /\ (/\ TheCall.elapsed <= WindowSecs
            /\ TheCall.request.decodes
            /\ NewUsername # Str0
            /\ NewPassword # Str0 /\ PasswordAccepted
            /\ ~TheCall.writeErr) => TheResp.result = MsgOk

\* C1 amended: with no persisted configuration, a save whose body does not decode
\* is rejected with the parse error at any time; a save whose body decodes and
\* that is evaluated more than 300 s after start is rejected with the
\* bootstrap-window error whatever the decoded body holds; a save whose body
\* decodes, with a username non-empty after trimming and a non-empty accepted
\* password, whose write succeeds, evaluated at most 300 s after start, returns ok.
C1_BootstrapFirst ==
    Pending /\ TheCall.firstTime =>
        /\ ~TheCall.request.decodes => TheResp.result = MsgParse
        /\ TheCall.request.decodes /\ TheCall.elapsed > WindowSecs
              => TheResp.result = MsgWindowFirst
        /\ (/\ TheCall.elapsed <= WindowSecs
            /\ TheCall.request.decodes
            /\ NewUsername # Str0
            /\ NewPassword # Str0 /\ PasswordAccepted
            /\ ~TheCall.writeErr)
              => (TheResp.result = MsgOk /\ TheCall.saveCalls = 1)

C1_Witness ==
    /\ Pending /\ TheCall.firstTime /\ TheCall.elapsed = 360
    /\ TheCall.request.decodes /\ NewUsername # Str0
    /\ NewPassword # Str0 /\ PasswordAccepted
    /\ TheResp.result = MsgWindowFirst

-----------------------------------------------------------------------------
(* C2: bootstrap rule 2                                                    *)

\* C2: with an existing configuration, a decoded request is rejected by the guard
\* exactly when the window has expired, the existing username and password are
\* both empty, and the trimmed submitted username or the submitted password is
\* non-empty; in every other case it goes on to credential validation.
C2_BootstrapCreds ==
    Pending /\ ~TheCall.firstTime /\ TheCall.request.decodes =>
        /\ TheResp.result = MsgWindowCreds <=>
              /\ TheCall.elapsed > WindowSecs
              /\ TheCall.conf.Username = Str0 /\ TheCall.conf.Password = Str0
              /\ (NewUsername # Str0 \/ NewPassword # Str0)
        /\ TheResp.result # MsgWindowFirst
        /\ TheResp.result # MsgParse

C2_Witness ==
    /\ Pending /\ ~TheCall.firstTime /\ TheCall.elapsed > WindowSecs
    /\ TheCall.conf.Username = Str0 /\ TheCall.conf.Password = Str0
    /\ NewUsername = Str0 /\ NewPassword # Str0
    /\ TheResp.result = MsgWindowCreds

-----------------------------------------------------------------------------
(* C3: the credential invariant                                            *)

\* C3: every configuration handed to the durable write, and so every
\* configuration after a save that returned ok, has a non-empty Username and a
\* non-empty Password hash; a request that gets past the guard and the strength
\* policy with an empty final username or password hash is rejected with the
\* missing-credentials message and nothing is written.
C3_Credentials ==
    Pending =>
        /\ (TheCall.saveCalls > 0 \/ TheResp.result = MsgOk)
              => (cfg.Username # Str0 /\ cfg.Password # Str0)
        /\ (/\ GuardAllows
            /\ NewPassword # Str0 => PasswordAccepted
            /\ (NewUsername = Str0 \/ FinalPassword = Str0))
              => (TheResp.result = MsgMissingCreds /\ TheCall.saveCalls = 0)

C3_Witness ==
    /\ Pending /\ TheCall.firstTime /\ GuardAllows
    /\ NewUsername # Str0 /\ NewPassword = Str0
    /\ TheResp.result = MsgMissingCreds /\ TheCall.saveCalls = 0

-----------------------------------------------------------------------------
(* C8: the update trigger                                                  *)

\* C8: a request that passes the guard and the credential checks calls the durable
\* write exactly once and, whether the write succeeded or failed, sets the
\* force-recompute flag to true and starts exactly one pass; no request starts
\* more than one pass.
C8_UpdateTrigger ==
    Pending =>
        /\ PassesChecks =>
              /\ TheCall.saveCalls = 1
              /\ ForceCompareGlobal = TRUE
              /\ TheCall.runOnce = 1 /\ passes = TheCall.passes + 1
              /\ TheResp.result = IF TheCall.writeErr THEN MsgWriteError ELSE MsgOk
        /\ passes <= TheCall.passes + 1

C8_Witness ==
    /\ Pending /\ PassesChecks /\ TheCall.writeErr /\ ~TheCall.force
    /\ TheResp.result = MsgWriteError
    /\ ForceCompareGlobal /\ passes = TheCall.passes + 1

-----------------------------------------------------------------------------
(* C9: a rejected save has no side effects on the collaborators            *)

\* C9: a request rejected with a parse error, a bootstrap-window error, a
\* weak-password error or a missing-credentials error calls the durable write
\* zero times, leaves the force-recompute flag as it was and starts no pass.
C9_RejectedNoSideEffects ==
    Pending /\ TheResp.result \in Rejections =>
        /\ TheCall.saveCalls = 0
        /\ ForceCompareGlobal = TheCall.force
        /\ TheCall.runOnce = 0 /\ passes = TheCall.passes
        /\ confErr = TheCall.firstTime

C9_Witness ==
    /\ Pending /\ TheResp.result = MsgWeakPassword
    /\ ~ForceCompareGlobal /\ passes = 0 /\ TheCall.saveCalls = 0

-----------------------------------------------------------------------------
(* C10: validation failures apply no mutation                              *)

\* C10: when a save is rejected because the new password is too weak or because
\* the final username or password hash is empty, the shared configuration is the
\* one before the request in NotAllowWanAccess, the webhook URL, body and headers,
\* Username, Password hash and the domain list.
C10_ValidationNoMutation ==
    Pending /\ TheResp.result \in {MsgWeakPassword, MsgMissingCreds} =>
        \A f \in {"NotAllowWanAccess", "WebhookURL", "WebhookRequestBody",
                  "WebhookHeaders", "Username", "Password", "DnsConf"} :
            cfg[f] = TheCall.conf[f]

-----------------------------------------------------------------------------
(* The merge of the pending request                                        *)

Submitted == TheData.DnsConf
Previous == TheCall.conf.DnsConf
Merged == cfg.DnsConf

\* the submitted indices that are not the sentinel
KeptIndices == {k \in 1..Len(Submitted) : Submitted[k] # empty}

\* the place in the merged list of the entry built from submitted index k
Slot(k) == Cardinality({j \in KeptIndices : j <= k})

\* an entry without its ID and Secret
Plain(dnsConf) == [dnsConf EXCEPT !.DNS.ID = Str0, !.DNS.Secret = Str0]

-----------------------------------------------------------------------------
(* C4: the secret-preservation law                                         *)

\* C4 as stated: for every submitted non-sentinel entry at index k, if k is an
\* index of the previous list and the submitted ID equals the masked form of the
\* previous ID at k, the merged ID is that previous ID; otherwise it is the
\* submitted ID trimmed.  The same for Secret.
C4_AsStated ==
    Pending /\ PassesChecks =>
        \A k \in KeptIndices :
            /\ Merged[Slot(k)].DNS.ID =
                  IF k <= Len(Previous)
                     /\ Submitted[k].DnsID = HideString(Previous[k].DNS.ID)
                  THEN Previous[k].DNS.ID
                  ELSE TrimSpace(Submitted[k].DnsID)
            /\ Merged[Slot(k)].DNS.Secret =
                  IF k <= Len(Previous)
                     /\ Submitted[k].DnsSecret = HideString(Previous[k].DNS.Secret)
                  THEN Previous[k].DNS.Secret
                  ELSE TrimSpace(Submitted[k].DnsSecret)

\* C4 amended: for every submitted non-sentinel entry at index k, if k is an
\* index of the previous list and the submitted ID with surrounding whitespace
\* trimmed equals the masked form of the previous ID at k, the merged ID is that
\* previous ID; otherwise it is the submitted ID trimmed.  The same,
\* independently, for Secret.
C4_SecretPreservation ==
    Pending /\ PassesChecks =>
        \A k \in KeptIndices :
            /\ Merged[Slot(k)].DNS.ID =
                  IF k <= Len(Previous)
                     /\ TrimSpace(Submitted[k].DnsID) = HideString(Previous[k].DNS.ID)
                  THEN Previous[k].DNS.ID
                  ELSE TrimSpace(Submitted[k].DnsID)
            /\ Merged[Slot(k)].DNS.Secret =
                  IF k <= Len(Previous)
                     /\ TrimSpace(Submitted[k].DnsSecret)
                           = HideString(Previous[k].DNS.Secret)
                  THEN Previous[k].DNS.Secret
                  ELSE TrimSpace(Submitted[k].DnsSecret)

\* a placeholder ID is replaced by the real ID next to a Secret that is new
C4_Witness ==
    /\ Pending /\ PassesChecks
    /\ \E k \in KeptIndices :
          /\ k <= Len(Previous)
          /\ TrimSpace(Submitted[k].DnsID) = HideString(Previous[k].DNS.ID)
          /\ Previous[k].DNS.ID # HideString(Previous[k].DNS.ID)
          /\ Merged[Slot(k)].DNS.ID = Previous[k].DNS.ID
          /\ Submitted[k].DnsSecret # HideString(Previous[k].DNS.Secret)
          /\ Merged[Slot(k)].DNS.Secret = Submitted[k].DnsSecret

-----------------------------------------------------------------------------
(* C5: no secret is lost to a placeholder or to another entry              *)

HiddenValues == {HideString(r) : r \in RealIDs \cup RealSecrets}

\* the tag of a persisted entry
TagOf(dnsConf) == JoinLines(dnsConf.Ipv4.Domains)

\* C5: after any sequence of successful saves in which the user submits, for every
\* ID and Secret, either a new real value or the placeholder the form showed for
\* that entry (entries deleted or reordered in between), no persisted ID or Secret
\* is a placeholder and no entry holds the real ID or Secret of another entry:
\* every entry holds the real values last typed for it.
C5_SecretsKept ==
    Pending /\ TheResp.result = MsgOk =>
        \A i \in 1..Len(Merged) :
            /\ Merged[i].DNS.ID \notin HiddenValues
            /\ Merged[i].DNS.Secret \notin HiddenValues
            /\ Merged[i].DNS.ID = truth[TagOf(Merged[i])].id
            /\ Merged[i].DNS.Secret = truth[TagOf(Merged[i])].secret

-----------------------------------------------------------------------------
(* C6: idempotence of save                                                 *)

\* C6: sending back the form of an ok response as it is (the returned domain list,
\* the same username, webhook settings and WAN flag, an empty password) produces
\* the configuration the first save produced.
C6_Idempotent ==
    Pending /\ TheCall.from = "again" => cfg = TheCall.conf

-----------------------------------------------------------------------------
(* C7: the shape of the merged list                                        *)

\* C7: the merged list has exactly one entry for each submitted DTO that is not the
\* sentinel, none for a sentinel, in the order of the submitted DTOs, and nothing
\* of the previous list beyond them.
C7_MergeShape ==
    Pending /\ PassesChecks =>
        /\ Len(Merged) = Cardinality(KeptIndices)
        /\ \A k \in KeptIndices :
              Plain(Merged[Slot(k)]) = Plain(NewDnsConf(Submitted[k]))

C7_Witness ==
    /\ Pending /\ PassesChecks
    /\ Len(Submitted) = 2 /\ Submitted[1] = empty /\ Submitted[2] # empty
    /\ Len(Previous) = 2 /\ Len(Merged) = 1
    /\ Merged[1].Ipv4.Domains = SplitLines(Submitted[2].Ipv4Domains)

-----------------------------------------------------------------------------
(* C11: early rejections apply no mutation                                 *)

\* C11: when a save is rejected because the body cannot be decoded or because of
\* the bootstrap window guard, no field of the shared configuration, its language
\* setting included, differs afterwards from its value before the request.
C11_EarlyNoMutation ==
    Pending /\ TheResp.result \in {MsgParse, MsgWindowFirst, MsgWindowCreds} =>
        cfg = TheCall.conf

-----------------------------------------------------------------------------
(* C12: persistence failure semantics                                      *)

\* what the pending request leaves in memory when its write succeeds
AttemptedChange ==
    checkAndSave([conf |-> TheCall.conf, err |-> TheCall.firstTime], TheCall.request,
                 startTime + TheCall.elapsed, startTime, FALSE).conf

\* C12: when the durable write fails, the request's result is the write error and
\* not "ok", the configuration in memory is the attempted change, and sending the
\* same body again leaves the configuration the first attempt would have left had
\* its write succeeded.
C12_WriteFailure ==
    Pending =>
        /\ TheCall.writeErr =>
              /\ TheResp.result = MsgWriteError /\ TheResp.result # MsgOk
              /\ cfg = AttemptedChange
              /\ disk = TheCall.file
        /\ TheCall.from = "retry" => cfg = TheCall.conf

-----------------------------------------------------------------------------
(* C13: password handling                                                  *)

\* C13: a save with an empty submitted password leaves the existing password hash
\* as it was; a save with a non-empty submitted password that passes the strength
\* policy stores the hash the policy check returned, so the stored Password is not
\* the raw submitted password; the Username stored is the submitted username with
\* surrounding whitespace trimmed.
C13_PasswordHandling ==
    Pending /\ TheCall.request.decodes =>
        /\ NewPassword = Str0 => cfg.Password = TheCall.conf.Password
        /\ GuardAllows /\ NewPassword # Str0 /\ PasswordAccepted =>
              /\ cfg.Password = HashPassword(NewPassword)
              /\ cfg.Password # NewPassword
        /\ GuardAllows => cfg.Username = TrimSpace(TheData.Username)

C13_Witness ==
    /\ Pending /\ GuardAllows /\ TheResp.result = MsgOk
    /\ NewPassword # Str0 /\ PasswordAccepted
    /\ TheCall.conf.Password # Str0
    /\ cfg.Password = HashPassword(NewPassword)
    /\ cfg.Password # TheCall.conf.Password
    /\ TheData.Username = <<" ", "u">> /\ cfg.Username = <<"u">>

-----------------------------------------------------------------------------
(* C14: concurrent saves are atomic                                        *)

\* the configuration in memory and in the file after the requests of goroutines
\* first and second have been served one after the other
OneAfterTheOther(first, second) ==
    LET o1 == checkAndSave([conf |-> StepsConfig, err |-> FALSE],
                           workers[first].request, now, startTime,
                           workers[first].writeErr)
        d1 == IF o1.saveCalls > 0 /\ ~workers[first].writeErr THEN <<o1.conf>>
              ELSE <<StepsConfig>>
        o2 == checkAndSave([conf |-> o1.conf, err |-> FALSE],
                           workers[second].request, now, startTime,
                           workers[second].writeErr)
        d2 == IF o2.saveCalls > 0 /\ ~workers[second].writeErr THEN <<o2.conf>>
              ELSE d1
    IN  [cfg |-> o2.conf, disk |-> d2]

\* C14: once two save requests handled concurrently have both been served, the
\* configuration in memory and the persisted one are those of running the two
\* requests one after the other in some order: never a mix of fields from both.
C14_ConcurrentSavesAtomic ==
    (\A h \in Handlers : workers[h].pc = "done") =>
        [cfg |-> cfg, disk |-> disk] \in {OneAfterTheOther(1, 2), OneAfterTheOther(2, 1)}

-----------------------------------------------------------------------------
(* C15: the handler does not wait for the pass it starts                   *)

\* C15: every request that has arrived gets its response written, whether or not
\* the dns.RunOnce pass it started ever runs or ends: checkAndSave returns and Save
\* writes the response without waiting for the pass.
C15_HandlerDoesNotWait ==
    \A h \in Handlers : (workers[h].pc # "idle") ~> (workers[h].pc = "done")

\* a response is written while the pass its request started has read nothing yet
C15_Witness ==
    \E h \in Handlers :
        /\ workers[h].pc = "done" /\ workers[h].response # <<>>
        /\ workers[h].response[1].result = MsgOk
        /\ runs[h].stage = "started"

-----------------------------------------------------------------------------
(* C17: the order of a save's effects                                      *)

-----------------------------------------------------------------------------
(* C20: the response payload                                               *)

\* C20: whenever the result of a save is not "ok" the response's dnsConf is the
\* empty list; whenever it is "ok" the response's dnsConf is the encoding of the
\* domain list this request saved, also when other requests are served at the
\* same time.
C20_ResponsePayload ==
    \A h \in Handlers :
        workers[h].response # <<>> =>
            /\ workers[h].response[1].result # MsgOk =>
                  workers[h].response[1].dnsConf = <<>>
            /\ workers[h].response[1].result = MsgOk =>
                  workers[h].response[1].dnsConf
                     = getDnsConfStr(workers[h].saved[1].DnsConf)

-----------------------------------------------------------------------------
(* C16: the bootstrap window is one-way                                    *)

\* C16: once a save request of this process run has been evaluated with the window
\* expired, no later request of the same run is evaluated within the window; only
\* a restart, which resets the start time, opens the window again.
C16_WindowOneWay ==
    Pending /\ TheCall.request.decodes /\ TheCall.expired =>
        TheCall.elapsed > WindowSecs

-----------------------------------------------------------------------------
(* C18: the locked-out state                                               *)

\* the persisted configuration has an empty username and an empty password, and
\* the pending request was evaluated with the window expired
LockedOut ==
    /\ TheCall.file # <<>>
    /\ TheCall.file[1].Username = Str0 /\ TheCall.file[1].Password = Str0
    /\ TheCall.elapsed > WindowSecs

\* C18: if the persisted configuration has an empty username and an empty password
\* and the bootstrap window has expired, no save request of any content returns
\* "ok" or changes the configuration: one that sets a credential is rejected by
\* the guard, one that sets none is rejected for missing credentials.
C18_LockedOut ==
    Pending /\ LockedOut =>
        /\ TheResp.result # MsgOk
        /\ cfg = TheCall.conf
        /\ disk = TheCall.file
        /\ TheCall.request.decodes =>
              TheResp.result = IF NewUsername # Str0 \/ NewPassword # Str0
                               THEN MsgWindowCreds ELSE MsgMissingCreds

-----------------------------------------------------------------------------
(* C19: the empty-domain warning                                           *)

\* the submitted entries whose IPv4 and IPv6 domain lists are both empty after
\* splitting
NoDomainsAfterSplit ==
    {k \in KeptIndices : /\ SplitLines(Submitted[k].Ipv4Domains) = <<>>
                         /\ SplitLines(Submitted[k].Ipv6Domains) = <<>>}

\* the submitted entries whose IPv4 and IPv6 domain texts are both the empty string
NoDomainText ==
    {k \in KeptIndices : /\ Submitted[k].Ipv4Domains = Str0
                         /\ Submitted[k].Ipv6Domains = Str0}

====
